---- MODULE Spec2Model ----
(***************************************************************************)
(* A model of the notes-to-tasks extraction-and-scoring pipeline:          *)
(*   scripts/extract_tasks.py, scripts/score_tasks.py,                     *)
(*   implementations/A-mcp-server/server.py,                               *)
(*   implementations/C-backlog-md/importer.py and scorer.py.               *)
(*                                                                         *)
(* Modelling conventions                                                   *)
(*  - A header value is a tagged value [t, v]: absent (None), int, float   *)
(*    (v in hundredths), text (v a string), date (a YYYY-MM-DD text, v its *)
(*    day number).                                                         *)
(*  - A text (raw action item, title, body) is a sequence of tokens; a     *)
(*    token is a text value (one word) or a date value (an ISO date).      *)
(*    `kw in text` is the contiguous occurrence of the keyword's words.    *)
(*  - A record file is held as the field mapping its header parses to,     *)
(*    plus its body.                                                       *)
(*  - Fractions are integers: confidence and score in hundredths, the      *)
(*    score's weighted sum in thousandths.                                 *)
(*  - Of a record's header the model holds the fields the pipeline reads   *)
(*    back: title, status, priority, score, urgency, impact, effort,       *)
(*    created_date, completed_date, due_date, due, confidence.             *)
(***************************************************************************)
EXTENDS Integers, Sequences, FiniteSets, TLC

VARIABLES today, ops, tasks, flagged, backlog, dirs, last, fnArgs, fnRet

vars == <<today, ops, tasks, flagged, backlog, dirs, last, fnArgs, fnRet>>

(***************************************************************************)
(* Bounds of the model.                                                    *)
(***************************************************************************)
\* Days are numbered 0..MaxDay.
MaxDay == 18

\* The store's clock runs from day 0 to day LastToday.
LastToday == 1

\* At most MaxId record files per store.
MaxId == 2

\* A run is at most MaxOps invocations of the scripts and tools.
MaxOps == 4

\* A stored urgency is absent, not an integer, or an integer of -1..MaxStored.
MaxStored == 12

\* Sub-scores range over LevelMin..LevelMax.
LevelMin == 1

LevelMax == 10

(***************************************************************************)
(* Tagged values.                                                          *)
(***************************************************************************)
Absent == [t |-> "absent", v |-> 0]

IntV(n) == [t |-> "int", v |-> n]

FloatV(hundredths) == [t |-> "float", v |-> hundredths]

TextV(s) == [t |-> "text", v |-> s]

DateV(d) == [t |-> "date", v |-> d]

Min(a, b) == IF a <= b THEN a ELSE b

Max(a, b) == IF a >= b THEN a ELSE b

\* Python truthiness of a header value: None, 0, 0.0 and "" are falsy.
Truthy(x) ==
    CASE x.t = "absent" -> FALSE
      [] x.t = "int"    -> x.v # 0
      [] x.t = "float"  -> x.v # 0
      [] x.t = "text"   -> x.v # ""
      [] OTHER          -> TRUE

(***************************************************************************)
(* Texts.                                                                  *)
(***************************************************************************)
\* str.lower() of one word.
Lower(w) ==
    CASE w = "ASAP"     -> "asap"
      [] w = "Critical" -> "critical"
      [] w = "Due"      -> "due"
      [] w = "Blocking" -> "blocking"
      [] w = "Migrate"  -> "migrate"
      [] OTHER          -> w

\* `kw in text.lower()`: the words of kw occur contiguously in text.
KwIn(kw, text) ==
    \E i \in 1..(Len(text) - Len(kw) + 1) :
        \A j \in 1..Len(kw) :
            /\ text[i + j - 1].t = "text"
            /\ \/ Lower(text[i + j - 1].v) = kw[j]
               \/ j = Len(kw) /\ kw[j] = "doc" /\ Lower(text[i + j - 1].v) = "docs"

\* The words of a plain phrase as a text.
Words(ws) == [i \in 1..Len(ws) |-> TextV(ws[i])]

\* The line end that closes the body a writer renders.
Newline == TextV("\n")

\* body = text[end + 4:].strip() of parse_frontmatter: the body of a file as a
\* reader gets it, without the white space at its two ends.
RECURSIVE strip_body(_)
strip_body(body) ==
    IF body = << >> THEN body
    ELSE IF Head(body) = Newline THEN strip_body(Tail(body))
    ELSE IF body[Len(body)] = Newline THEN strip_body(SubSeq(body, 1, Len(body) - 1))
    ELSE body

(***************************************************************************)
(* scripts/score_tasks.py                                                  *)
(***************************************************************************)
\* The keyword table of the scoring pass, in dictionary order.
score_URGENCY_KEYWORDS ==
    << [kw |-> <<"blocking">>, boost |-> 3], [kw |-> <<"blocked">>, boost |-> 3],
       [kw |-> <<"critical">>, boost |-> 3], [kw |-> <<"p0">>, boost |-> 3],
       [kw |-> <<"asap">>, boost |-> 2],     [kw |-> <<"urgent">>, boost |-> 2],
       [kw |-> <<"immediately">>, boost |-> 2], [kw |-> <<"today">>, boost |-> 2],
       [kw |-> <<"eod">>, boost |-> 2],      [kw |-> <<"p1">>, boost |-> 2],
       [kw |-> <<"high", "priority">>, boost |-> 1], [kw |-> <<"soon">>, boost |-> 1] >>

\* Weights in thousandths per unit.
SCORE_WEIGHTS == [urgency |-> 400, impact |-> 400, effort |-> -200]

\* A plausible bug: the loop stops at the first keyword found.
RECURSIVE KeywordLoop_first_match(_, _, _, _)
KeywordLoop_first_match(table, k, text, score) ==
    IF k > Len(table) THEN score
    ELSE IF KwIn(table[k].kw, text) THEN Min(10, score + table[k].boost)
    ELSE KeywordLoop_first_match(table, k + 1, text, score)

\* for kw, boost in table.items(): if kw in text: score = min(10, score + boost)
RECURSIVE KeywordLoop(_, _, _, _)
KeywordLoop(table, k, text, score) ==
    IF k > Len(table) THEN score
    ELSE KeywordLoop(table, k + 1, text,
                     IF KwIn(table[k].kw, text)
                     THEN Min(10, score + table[k].boost)
                     ELSE score)

\* A plausible bug: a task due today is not counted as overdue.
DeadlineBoost_today_not_overdue(score, days_left) ==
    IF days_left < 0 THEN Min(10, score + 4)
    ELSE IF days_left <= 2 THEN Min(10, score + 3)
    ELSE IF days_left <= 7 THEN Min(10, score + 2)
    ELSE IF days_left <= 14 THEN Min(10, score + 1)
    ELSE score

\* The deadline-proximity branch of compute_urgency.
DeadlineBoost(score, days_left) ==
    IF days_left <= 0 THEN Min(10, score + 4)
    ELSE IF days_left <= 2 THEN Min(10, score + 3)
    ELSE IF days_left <= 7 THEN Min(10, score + 2)
    ELSE IF days_left <= 14 THEN Min(10, score + 1)
    ELSE score

\* The stored-or-recomputed keyword baseline of compute_urgency.
UrgencyBaseline(fm, body) ==
    LET stored == fm.urgency
    IN  IF stored.t = "int" /\ stored.v > 0
        THEN stored.v
        ELSE KeywordLoop(score_URGENCY_KEYWORDS, 1, fm.title \o body, 5)

\* A plausible bug: the early return that skips the deadline check whenever a
\* stored baseline exists.
compute_urgency_early_return(fm, body, now) ==
    LET stored == fm.urgency
        due    == fm.due_date
    IN  IF stored.t = "int" /\ stored.v > 0
        THEN Min(10, stored.v)
        ELSE LET score == UrgencyBaseline(fm, body)
             IN  IF Truthy(due) /\ due.t = "date"
                 THEN Min(10, DeadlineBoost(score, due.v - now))
                 ELSE Min(10, score)

\* A plausible bug: the final cap is dropped.
compute_urgency_uncapped(fm, body, now) ==
    LET score == UrgencyBaseline(fm, body)
        due   == fm.due_date
    IN  IF Truthy(due) /\ due.t = "date" /\ score < 10
        THEN DeadlineBoost(score, due.v - now)
        ELSE score

\* compute_urgency(fm, body) on the day `now`. A due date that is not an ISO
\* date (strptime raises ValueError), "null", "" or None adds nothing.
compute_urgency(fm, body, now) ==
    LET score == UrgencyBaseline(fm, body)
        due   == fm.due_date
    IN  IF /\ Truthy(due)
           /\ due \notin {TextV("null"), Absent, TextV("")}
           /\ due.t = "date"
        THEN Min(10, DeadlineBoost(score, due.v - now))
        ELSE Min(10, score)

\* round(x, 1) of x thousandths, in hundredths (ties to even).
Round1(x) ==
    LET q == x \div 100
        r == x % 100
    IN  IF r > 50 \/ (r = 50 /\ q % 2 = 1) THEN (q + 1) * 10 ELSE q * 10

\* A plausible bug: the score is clamped to [0, 10].
compute_score_clamped(urgency, impact, effort) ==
    Max(0, Min(1000, Round1(urgency * 400 + impact * 400 + effort * (-200))))

\* A plausible bug: effort is added instead of subtracted.
compute_score_effort_added(urgency, impact, effort) ==
    Round1(urgency * 400 + impact * 400 + effort * 200)

\* compute_score(urgency, impact, effort), in hundredths.
compute_score(urgency, impact, effort) ==
    Round1(urgency * SCORE_WEIGHTS.urgency
           + impact * SCORE_WEIGHTS.impact
           + effort * SCORE_WEIGHTS.effort)

\* The title keywords of heuristic_impact_effort.
high_impact_keywords ==
    << <<"launch">>, <<"release">>, <<"customer">>, <<"revenue">>, <<"security">>,
       <<"auth">>, <<"production">>, <<"deploy">>, <<"outage">>, <<"critical">>,
       <<"blocking">> >>

hard_keywords ==
    << <<"refactor">>, <<"migrate">>, <<"redesign">>, <<"architecture">>,
       <<"integration">>, <<"rewrite">>, <<"research">>, <<"spike">> >>

easy_keywords ==
    << <<"fix", "typo">>, <<"update", "readme">>, <<"update", "doc">>,
       <<"bump", "version">>, <<"hotfix">> >>

\* for kw in kws: if kw in title: x = max(lo, min(hi, x + step))
RECURSIVE StepLoop(_, _, _, _, _, _, _)
StepLoop(kws, k, text, x, step, lo, hi) ==
    IF k > Len(kws) THEN x
    ELSE StepLoop(kws, k + 1, text,
                  IF KwIn(kws[k], text) THEN Max(lo, Min(hi, x + step)) ELSE x,
                  step, lo, hi)

\* heuristic_impact_effort(fm): <<impact, effort>>.
heuristic_impact_effort(fm) ==
    LET priority == IF fm.priority.t = "text" THEN Lower(fm.priority.v) ELSE "none"
        base == CASE priority = "critical" -> 9
                  [] priority = "high"     -> 7
                  [] priority = "low"      -> 3
                  [] OTHER                 -> 6
        impact == StepLoop(high_impact_keywords, 1, fm.title, base, 1, base, 10)
        hard   == StepLoop(hard_keywords, 1, fm.title, 4, 2, 4, 10)
        effort == StepLoop(easy_keywords, 1, fm.title, hard, -2, 1, hard)
    IN  <<impact, effort>>

\* f"{val:.1f}" of a float of 0..1 given in hundredths, read back: the
\* nearest tenth of its binary value (0.65 is written 0.7, 0.85 is 0.8).
Fmt1(h) ==
    LET q == h \div 10
        r == h % 10
    IN  IF r > 5 \/ (r = 5 /\ h \in {5, 45, 55, 65, 75}) THEN (q + 1) * 10 ELSE q * 10

\* The field mapping that a header written by render_frontmatter parses to:
\* a float comes back with one decimal, every other value as it was.
Rendered(fm) ==
    [fm EXCEPT !.score = IF @.t = "float" THEN FloatV(Fmt1(@.v)) ELSE @,
               !.confidence = IF @.t = "float" THEN FloatV(Fmt1(@.v)) ELSE @]

\* The outcomes of llm_score_impact_effort: None, a pair, or an exception
\* that leaves the function.
LlmNone == [k |-> "none", impact |-> 0, effort |-> 0]

LlmRaise == [k |-> "raise", impact |-> 0, effort |-> 0]

LlmPair(i, e) == [k |-> "pair", impact |-> i, effort |-> e]

\* llm_score_impact_effort(fm, body) in the environment env:
\*   env.api_key    ANTHROPIC_API_KEY is set
\*   env.anthropic  the client library can be imported
\*   env.rubrics    prompts/impact_rubric.md and effort_rubric.md exist
\*   env.reply      "ok" (a JSON object with impact and effort), "no_text",
\*                  "no_json", "bad_json" or "transport_error"
\*   env.impact, env.effort   the integers of an "ok" reply
\* The rubric files are read outside the try block.
llm_score_impact_effort(fm, body, env) ==
    IF ~env.api_key THEN LlmNone
    ELSE IF ~env.anthropic THEN LlmNone
    ELSE IF ~env.rubrics THEN LlmRaise
    ELSE IF env.reply = "ok"
         THEN LlmPair(Max(1, Min(10, env.impact)), Max(1, Min(10, env.effort)))
         ELSE LlmNone

\* The result of score_task_file on a file [fm, body] on day `now`:
\* [raised, file, urgency, impact, effort, score], where file is the file as
\* it is left on disk.
score_task_file(file, dry_run, no_llm, env, now) ==
    LET fm      == file.fm
        body    == strip_body(file.body)
        urgency == compute_urgency(fm, body, now)
        impact0 == fm.impact
        effort0 == fm.effort
        llm     == IF (impact0 = Absent \/ effort0 = Absent) /\ ~no_llm
                   THEN llm_score_impact_effort(fm, body, env)
                   ELSE LlmNone
        impact1 == IF llm.k = "pair" THEN IntV(llm.impact) ELSE impact0
        effort1 == IF llm.k = "pair" THEN IntV(llm.effort) ELSE effort0
        h       == heuristic_impact_effort(fm)
        impact  == IF impact1 = Absent \/ effort1 = Absent
                   THEN (IF impact1 # Absent THEN impact1 ELSE IntV(h[1]))
                   ELSE impact1
        effort  == IF impact1 = Absent \/ effort1 = Absent
                   THEN (IF effort1 # Absent THEN effort1 ELSE IntV(h[2]))
                   ELSE effort1
        score   == compute_score(urgency, impact.v, effort.v)
    IN  IF llm.k = "raise"
        THEN [raised |-> TRUE, file |-> file, urgency |-> Absent,
              impact |-> Absent, effort |-> Absent, score |-> Absent]
        ELSE [raised  |-> FALSE,
              file    |-> IF dry_run THEN file
                          ELSE [fm   |-> Rendered([fm EXCEPT !.urgency = IntV(urgency),
                                                              !.impact = impact,
                                                              !.effort = effort,
                                                              !.score = FloatV(score)]),
                                body |-> body],
              urgency |-> IntV(urgency), impact |-> impact, effort |-> effort,
              score   |-> FloatV(score)]

(***************************************************************************)
(* scripts/extract_tasks.py                                                *)
(***************************************************************************)
\* In hundredths.
CONFIDENCE_THRESHOLD == 70

\* The keyword table of extraction, in dictionary order.
extract_URGENCY_KEYWORDS ==
    << [kw |-> <<"blocking">>, boost |-> 3], [kw |-> <<"blocked">>, boost |-> 3],
       [kw |-> <<"critical">>, boost |-> 3], [kw |-> <<"p0">>, boost |-> 3],
       [kw |-> <<"asap">>, boost |-> 2],     [kw |-> <<"urgent">>, boost |-> 2],
       [kw |-> <<"immediately">>, boost |-> 2], [kw |-> <<"eod">>, boost |-> 2],
       [kw |-> <<"end", "of", "day">>, boost |-> 2], [kw |-> <<"p1">>, boost |-> 2],
       [kw |-> <<"high", "priority">>, boost |-> 1], [kw |-> <<"soon">>, boost |-> 1] >>

\* The token "--" stands for the em dash, "-" for the hyphen: [—-].
IsDash(tok) == tok.t = "text" /\ tok.v \in {"--", "-"}

\* \*\*(@\w+)\*\* : the handle of a bold owner marker, "" for any other word.
OwnerHandle(w) ==
    CASE w = "**@alice**" -> "@alice"
      [] w = "**@bob**"   -> "@bob"
      [] OTHER            -> ""

IsOwner(tok) == tok.t = "text" /\ OwnerHandle(tok.v) # ""

IsWord(text, i, w) ==
    i >= 1 /\ i <= Len(text) /\ text[i].t = "text" /\ Lower(text[i].v) = w

\* A token made of \w characters only.
IsWordTok(tok) ==
    /\ tok.t = "text"
    /\ ~IsDash(tok)
    /\ ~IsOwner(tok)
    /\ tok.v \notin {",", "[[note]]", "#"}

\* A token that ends in a digit; the number of its characters.
EndsInDigit(tok) == tok.t = "text" /\ tok.v \in {"5", "15"}

\* len() of a token and of a text joined by single spaces.
TokChars(tok) ==
    IF tok.t = "date" THEN 10
    ELSE IF tok.v = "--" THEN 1
    ELSE Len(tok.v)

RECURSIVE TextChars(_)
TextChars(text) ==
    IF Len(text) = 0 THEN 0
    ELSE IF Len(text) = 1 THEN TokChars(text[1])
    ELSE TokChars(text[1]) + 1 + TextChars(Tail(text))

RECURSIVE Join(_)
Join(text) ==
    IF Len(text) = 0 THEN ""
    ELSE IF Len(text) = 1 THEN text[1].v
    ELSE text[1].v \o " " \o Join(Tail(text))

\* The last index k >= i - 1 such that text[i..k] are all \w tokens.
RECURSIVE WordRunEnd(_, _)
WordRunEnd(text, i) ==
    IF i <= Len(text) /\ IsWordTok(text[i]) THEN WordRunEnd(text, i + 1) ELSE i - 1

\* [\w\s]+\d+ from token i on (greedy): the run of \w tokens, up to the year
\* of an ISO date that follows it or else up to its last token ending in a
\* digit. Absent when there is no match.
FreePhrase(text, i) ==
    LET k    == WordRunEnd(text, i)
        ends == {j \in i..k : EndsInDigit(text[j]) /\ (j > i \/ Len(text[j].v) >= 2)}
    IN  IF k >= i /\ k + 1 <= Len(text) /\ text[k + 1].t = "date"
        THEN TextV(Join(SubSeq(text, i, k)) \o " YYYY")
        ELSE IF ends # {}
        THEN TextV(Join(SubSeq(text, i, CHOOSE j \in ends : \A m \in ends : m <= j)))
        ELSE Absent

\* The group of due\s+(\d{4}-\d{2}-\d{2}|next meeting|eod|today|[\w\s]+\d+)
\* when "due" is token i; Absent when the alternatives all fail.
DueGroup(text, i) ==
    IF ~IsWord(text, i, "due") \/ i + 1 > Len(text) THEN Absent
    ELSE IF text[i + 1].t = "date" THEN text[i + 1]
    ELSE IF IsWord(text, i + 1, "next") /\ IsWord(text, i + 2, "meeting")
         THEN TextV(text[i + 1].v \o " " \o text[i + 2].v)
    ELSE IF IsWord(text, i + 1, "eod") \/ IsWord(text, i + 1, "today")
         THEN text[i + 1]
    ELSE FreePhrase(text, i + 1)

\* re.search: the leftmost match.
DueMatch(text) ==
    LET hits == {i \in 1..Len(text) : DueGroup(text, i) # Absent}
    IN  IF hits = {} THEN Absent
        ELSE DueGroup(text, CHOOSE i \in hits : \A m \in hits : i <= m)

\* re.sub(r"\*\*@\w+\*\*\s*[—-]\s*", "", raw)
RECURSIVE StripOwnerDash(_)
StripOwnerDash(text) ==
    IF Len(text) = 0 THEN << >>
    ELSE IF Len(text) >= 2 /\ IsOwner(text[1]) /\ IsDash(text[2])
         THEN StripOwnerDash(SubSeq(text, 3, Len(text)))
    ELSE <<text[1]>> \o StripOwnerDash(Tail(text))

\* re.sub(r"\s*[—-]\s*due\s+.+", "", title): a dash, "due" and at least one
\* more token, cut to the end.
CutDue(text) ==
    LET hits == {i \in 1..Len(text) :
                    IsDash(text[i]) /\ IsWord(text, i + 1, "due") /\ i + 2 <= Len(text)}
    IN  IF hits = {} THEN text
        ELSE SubSeq(text, 1, (CHOOSE i \in hits : \A m \in hits : i <= m) - 1)

\* re.sub(r"\s*[—-]\s*(blocking|depends on|blocked)\s+.+", "", title)
CutBlocking(text) ==
    LET hits == {i \in 1..Len(text) :
                    /\ IsDash(text[i])
                    /\ \/ (IsWord(text, i + 1, "blocking") /\ i + 2 <= Len(text))
                       \/ (IsWord(text, i + 1, "blocked") /\ i + 2 <= Len(text))
                       \/ (IsWord(text, i + 1, "depends") /\ IsWord(text, i + 2, "on")
                           /\ i + 3 <= Len(text))}
    IN  IF hits = {} THEN text
        ELSE SubSeq(text, 1, (CHOOSE i \in hits : \A m \in hits : i <= m) - 1)

\* title.strip(" —-")
RECURSIVE StripDashes(_)
StripDashes(text) ==
    IF Len(text) = 0 THEN text
    ELSE IF IsDash(text[1]) THEN StripDashes(Tail(text))
    ELSE IF IsDash(text[Len(text)]) THEN StripDashes(SubSeq(text, 1, Len(text) - 1))
    ELSE text

\* A plausible bug: the title bonus is given from 10 characters on.
confidence_title_inclusive(owner_match, due_date, title) ==
    50 + (IF owner_match THEN 20 ELSE 0)
       + (IF Truthy(due_date) THEN 15 ELSE 0)
       + (IF TextChars(title) >= 10 THEN 15 ELSE 0)

\* The confidence of parse_action_item, round(confidence, 2), in hundredths:
\* the float sums 0.5, 0.65, 0.7, 0.8, 0.85, 1.0 round to themselves.
confidence_of(owner_match, due_date, title) ==
    50 + (IF owner_match THEN 20 ELSE 0)
       + (IF Truthy(due_date) THEN 15 ELSE 0)
       + (IF TextChars(title) > 10 THEN 15 ELSE 0)

\* parse_action_item(raw, source_file); confidence in hundredths.
\* A plausible bug: urgency 8 is not yet high.
priority_above_eight(urgency) ==
    IF urgency > 8 THEN "high" ELSE IF urgency >= 5 THEN "medium" ELSE "low"

\* "high" if urgency >= 8 else "medium" if urgency >= 5 else "low"
priority_of(urgency) ==
    IF urgency >= 8 THEN "high" ELSE IF urgency >= 5 THEN "medium" ELSE "low"

\* The (keyword, label) pairs of the label loop, in order.
LABEL_KEYWORDS ==
    << <<"auth", "auth">>, <<"api", "api">>, <<"db", "database">>,
       <<"database", "database">>, <<"test", "testing">>, <<"deploy", "deploy">>,
       <<"bug", "bug">>, <<"fix", "bug">>, <<"doc", "docs">>, <<"design", "design">>,
       <<"front", "frontend">>, <<"back", "backend">>, <<"infra", "infrastructure">> >>

\* keyword in lower, for the words of the sample items: a label keyword has no
\* space, so it lies within one word; "docs" is the only word that contains
\* a keyword without being one.
LabelKwIn(keyword, raw) ==
    \E i \in 1..Len(raw) :
        /\ raw[i].t = "text"
        /\ \/ Lower(raw[i].v) = keyword
           \/ Lower(raw[i].v) = "docs" /\ keyword = "doc"

\* list(set(labels))
detect_labels(raw) ==
    { LABEL_KEYWORDS[k][2] :
        k \in {m \in 1..Len(LABEL_KEYWORDS) : LabelKwIn(LABEL_KEYWORDS[m][1], raw)} }

parse_action_item(raw) ==
    LET owners     == {i \in 1..Len(raw) : IsOwner(raw[i])}
        assignee   == IF owners = {} THEN "unassigned"
                      ELSE OwnerHandle(raw[CHOOSE i \in owners : \A m \in owners : i <= m].v)
        due_date   == DueMatch(raw)
        title      == StripDashes(CutBlocking(CutDue(StripOwnerDash(raw))))
        confidence == confidence_of(owners # {}, due_date, title)
        urgency    == KeywordLoop(extract_URGENCY_KEYWORDS, 1, raw, 5)
    IN  [title      |-> title,
         status     |-> "todo",
         assignee   |-> assignee,
         priority   |-> priority_of(urgency),
         urgency    |-> urgency,
         impact     |-> Absent,
         effort     |-> Absent,
         score      |-> Absent,
         due_date   |-> due_date,
         labels     |-> detect_labels(raw),
         confidence |-> confidence]

\* The lines of a note: kind and, for a checkbox line, the text after the
\* checkbox.
\*   h2_action_items       ## Action Items
\*   h2_action_items_more  ## action items (carried over)
\*   h2_other              ## Decisions
\*   h3                    ### Action Items
\*   checkbox              - [ ] <raw>
\*   checkbox_done         - [X] <raw>
\*   bullet                - <raw>
\*   plain                 any other line
NoteLine(kind, raw) == [k |-> kind, raw |-> raw]

\* re.match(r"^##\s+Action Items", line, re.IGNORECASE): a match at the
\* start of the line, whatever follows.
MatchesActionItems(line) == line.k \in {"h2_action_items", "h2_action_items_more"}

\* re.match(r"^##\s+", line)
MatchesH2(line) == line.k \in {"h2_action_items", "h2_action_items_more", "h2_other"}

\* re.match(r"^\s*-\s+\[[ x]\]\s+(.+)$", line, re.IGNORECASE)
MatchesCheckbox(line) == line.k \in {"checkbox", "checkbox_done"}

\* The loop of extract_action_items from line k on; the break ends it.
RECURSIVE extract_loop(_, _, _, _)
extract_loop(lines, k, in_section, items) ==
    IF k > Len(lines) THEN items
    ELSE IF MatchesActionItems(lines[k])
    THEN extract_loop(lines, k + 1, TRUE, items)
    ELSE IF in_section /\ MatchesH2(lines[k]) THEN items
    ELSE IF ~in_section THEN extract_loop(lines, k + 1, in_section, items)
    ELSE IF MatchesCheckbox(lines[k])
    THEN extract_loop(lines, k + 1, in_section, Append(items, lines[k].raw))
    ELSE extract_loop(lines, k + 1, in_section, items)

\* extract_action_items(text): the raw texts of the items, in order.
extract_action_items(lines) == extract_loop(lines, 1, FALSE, << >>)

(***************************************************************************)
(* The stores. A store maps the numbers of its record files to the files;  *)
(* dirs is the set of store directories that exist.                        *)
(***************************************************************************)
NoFiles == << >>

Ids(store) == DOMAIN store

MaxOf(S) == CHOOSE n \in S : \A m \in S : m <= n

Put(store, id, file) ==
    [i \in Ids(store) \cup {id} |-> IF i = id THEN file ELSE store[i]]

\* The report of the last operation: its name, its dry-run flag, how it
\* ended and, for a creation path, where each candidate went.
Report(op, dry_run, status, routed) ==
    [op |-> op, dry_run |-> dry_run, status |-> status, routed |-> routed]

Routed(confidence, dest) == [confidence |-> confidence, dest |-> dest]

\* next_task_id(task_dir) of extract_tasks.py: the files of task_dir and of
\* REPO_ROOT/flagged.
extract_next_task_id(live, flaggedStore) ==
    LET nums == Ids(live) \cup Ids(flaggedStore)
    IN  IF nums = {} THEN 1 ELSE MaxOf(nums) + 1

\* The file render_task_md(task_id, fields, today) writes, as it is read back.
render_task_md(fields, now) ==
    [fm   |-> [title          |-> fields.title,
               status         |-> TextV(fields.status),
               priority       |-> TextV(fields.priority),
               score          |-> Absent,
               urgency        |-> IntV(fields.urgency),
               impact         |-> Absent,
               effort         |-> Absent,
               created_date   |-> DateV(now),
               completed_date |-> Absent,
               due_date       |-> IF Truthy(fields.due_date) THEN fields.due_date
                                  ELSE TextV("null"),
               due            |-> Absent,
               confidence     |-> FloatV(fields.confidence)],
     body |-> <<TextV("#")>> \o fields.title
              \o Words(<<"Extracted", "from", "[[note]]">>) \o <<Newline>>]

\* The loop of main() of extract_tasks.py over the raw items from item k on:
\* parse, allocate an id, route by confidence, write_task.
\* A plausible bug: only a candidate with no bonus at all goes to review.
route_only_bare(confidence) == IF confidence <= 50 THEN "flagged" ELSE "live"

\* if fields["confidence"] < CONFIDENCE_THRESHOLD: dest = FLAGGED_DIR
\* else: dest = task_dir
route(confidence) == IF confidence < CONFIDENCE_THRESHOLD THEN "flagged" ELSE "live"

RECURSIVE ExtractLoop(_, _, _, _, _, _, _, _)
ExtractLoop(items, k, live, flaggedStore, dirSet, routed, dry_run, now) ==
    IF k > Len(items)
    THEN [live |-> live, flagged |-> flaggedStore, dirs |-> dirSet, routed |-> routed]
    ELSE LET fields  == parse_action_item(items[k])
             task_id == extract_next_task_id(live, flaggedStore)
             content == render_task_md(fields, now)
             dest    == route(fields.confidence)
             low     == dest = "flagged"
             r       == Routed(fields.confidence, dest)
         IN  IF dry_run
             THEN ExtractLoop(items, k + 1, live, flaggedStore, dirSet,
                              Append(routed, r), dry_run, now)
             ELSE IF low
             THEN ExtractLoop(items, k + 1, live, Put(flaggedStore, task_id, content),
                              dirSet \cup {"flagged"}, Append(routed, r), dry_run, now)
             ELSE ExtractLoop(items, k + 1, Put(live, task_id, content), flaggedStore,
                              dirSet \cup {"tasks"}, Append(routed, r), dry_run, now)

(***************************************************************************)
(* scripts/score_tasks.py: main()                                          *)
(***************************************************************************)
\* The loop of main() over the TASK-*.md files of a store in sorted order,
\* from the files numbered above `done` on. An exception that leaves
\* score_task_file ends the run: the files after it are not reached.
RECURSIVE ScoreLoop(_, _, _, _, _, _)
ScoreLoop(store, done, dry_run, no_llm, env, now) ==
    LET left == {i \in Ids(store) : i > done}
    IN  IF left = {} THEN [store |-> store, aborted |-> FALSE]
        ELSE LET id == CHOOSE i \in left : \A m \in left : i <= m
                 r  == score_task_file(store[id], dry_run, no_llm, env, now)
             IN  IF r.raised THEN [store |-> store, aborted |-> TRUE]
                 ELSE ScoreLoop([store EXCEPT ![id] = r.file], id,
                                dry_run, no_llm, env, now)

(***************************************************************************)
(* implementations/A-mcp-server/server.py                                  *)
(***************************************************************************)
\* next_task_id() of server.py: the files of TASKS_DIR and of the server's
\* own flagged directory (IMPL_DIR/flagged), which no operation writes.
server_next_task_id(live) ==
    LET nums == Ids(live) \cup Ids(NoFiles)
    IN  IF nums = {} THEN 1 ELSE MaxOf(nums) + 1

\* The file tool_create_task writes through write_task_file, as read back.
tool_create_task(params, now) ==
    [fm   |-> Rendered([title          |-> params.title,
                        status         |-> TextV("todo"),
                        priority       |-> params.priority,
                        score          |-> Absent,
                        urgency        |-> Absent,
                        impact         |-> Absent,
                        effort         |-> Absent,
                        created_date   |-> DateV(now),
                        completed_date |-> Absent,
                        due_date       |-> params.due_date,
                        due            |-> Absent,
                        confidence     |-> params.confidence]),
     body |-> <<TextV("#")>> \o params.title \o Words(<<"Run", "score_tasks">>) \o <<Newline>>]

\* A plausible bug: a missing record is reported as a success.
not_found_silent(live) == [store |-> live, status |-> "ok"]

\* if not path.exists(): return f"Error: task {task_id} not found"
not_found(live) == [store |-> live, status |-> "error"]

\* tool_update_task on an existing file: fm.update(params without id).
tool_update_task(file, field, value) ==
    [fm   |-> Rendered([file.fm EXCEPT ![field] = value]),
     body |-> strip_body(file.body)]

\* tool_complete_task on an existing file.
tool_complete_task(file, now) ==
    [fm   |-> Rendered([file.fm EXCEPT !.status = TextV("done"),
                                       !.completed_date = DateV(now)]),
     body |-> strip_body(file.body)]

(***************************************************************************)
(* implementations/C-backlog-md/importer.py and scorer.py                  *)
(***************************************************************************)
\* The file write_backlog_md_directly writes, as read back: its header has
\* the keys title, status, assignee, created, due, labels, score, urgency,
\* impact, effort, source.
backlog_file(fields) ==
    [fm   |-> [title          |-> fields.title,
               status         |-> TextV("todo"),
               priority       |-> Absent,
               score          |-> Absent,
               urgency        |-> Absent,
               impact         |-> Absent,
               effort         |-> Absent,
               created_date   |-> Absent,
               completed_date |-> Absent,
               due_date       |-> Absent,
               due            |-> IF Truthy(fields.due_date)
                                     /\ fields.due_date # TextV("null")
                                  THEN fields.due_date ELSE TextV(""),
               confidence     |-> Absent],
     body |-> <<TextV("#")>> \o fields.title
              \o Words(<<"Imported", "from", "[[note]]">>) \o <<Newline>>]

\* write_backlog_md_directly: both directories are made before dry_run is
\* looked at.
write_backlog_md_directly(st, fields, task_num, dry_run) ==
    [store |-> IF dry_run THEN st.store
               ELSE Put(st.store, task_num, backlog_file(fields)),
     dirs  |-> st.dirs \cup {"backlog", "backlog/tasks"}]

\* The loop of main() of importer.py without the backlog CLI, from item k on.
RECURSIVE ImportLoop(_, _, _, _, _, _)
ImportLoop(items, k, st, task_num, routed, dry_run) ==
    IF k > Len(items)
    THEN [store |-> st.store, dirs |-> st.dirs, routed |-> routed]
    ELSE LET fields == parse_action_item(items[k])
         IN  IF fields.confidence < 70
             THEN ImportLoop(items, k + 1, st, task_num,
                             Append(routed, Routed(fields.confidence, "skipped")),
                             dry_run)
             ELSE ImportLoop(items, k + 1,
                             write_backlog_md_directly(st, fields, task_num, dry_run),
                             task_num + 1,
                             Append(routed, Routed(fields.confidence, "live")),
                             dry_run)

\* One file of the loop of main() of scorer.py: compute_urgency(fm) and
\* llm_score_impact_effort(fm) get no body; the body is written back.
scorer_file(file, dry_run, no_llm, env, now) ==
    LET r == score_task_file([fm |-> file.fm, body |-> << >>],
                             dry_run, no_llm, env, now)
    IN  [r EXCEPT !.file = [fm   |-> r.file.fm,
                            body |-> IF dry_run \/ r.raised THEN file.body
                                     ELSE strip_body(file.body)]]

RECURSIVE ScorerLoop(_, _, _, _, _, _)
ScorerLoop(store, done, dry_run, no_llm, env, now) ==
    LET left == {i \in Ids(store) : i > done}
    IN  IF left = {} THEN [store |-> store, aborted |-> FALSE]
        ELSE LET id == CHOOSE i \in left : \A m \in left : i <= m
                 r  == scorer_file(store[id], dry_run, no_llm, env, now)
             IN  IF r.raised THEN [store |-> store, aborted |-> TRUE]
                 ELSE ScorerLoop([store EXCEPT ![id] = r.file], id,
                                 dry_run, no_llm, env, now)

(***************************************************************************)
(* Inputs.                                                                 *)
(***************************************************************************)
\* - [ ] **@alice** -- fix login bug -- due <ISO date of day d>
ItemDue(d) ==
    <<TextV("**@alice**"), TextV("--"), TextV("fix"), TextV("login"), TextV("bug"),
      TextV("--"), TextV("due"), DateV(d)>>

\* - [ ] Migrate auth service to new provider -- critical , blocking release
ItemNoOwner ==
    Words(<<"Migrate", "auth", "service", "to", "new", "provider", "--",
            "critical", ",", "blocking", "release">>)

\* - [ ] **@bob** -- update doc
ItemShort == <<TextV("**@bob**"), TextV("--"), TextV("update"), TextV("doc")>>

\* - [ ] **@alice** fix login bug -- due <ISO date of day d>
ItemNoDash(d) ==
    <<TextV("**@alice**"), TextV("fix"), TextV("login"), TextV("bug"),
      TextV("--"), TextV("due"), DateV(d)>>

\* - [ ] ship ASAP
ItemShout == Words(<<"ship", "ASAP">>)

\* - [ ] **@bob** -- update docs
ItemEleven == <<TextV("**@bob**"), TextV("--"), TextV("update"), TextV("docs")>>

\* - [ ] fix bug -- due March 5
ItemDueOnly == Words(<<"fix", "bug", "--", "due", "March", "5">>)

\* - [ ] **@bob** - ship -- due eod
ItemOwnerDue == Words(<<"**@bob**", "-", "ship", "--", "due", "eod">>)

\* - [ ] rewrite the parser -- due next meeting -- depends on #
ItemDepends ==
    Words(<<"rewrite", "the", "parser", "--", "due", "next", "meeting",
            "--", "depends", "on", "#">>)

\* - [ ] fix
ItemBare == Words(<<"fix">>)

\* A meeting note with the given action items in its Action Items section.
NoteOf(items) ==
    <<NoteLine("plain", << >>), NoteLine("h2_action_items", << >>)>>
    \o [i \in 1..Len(items) |-> NoteLine("checkbox", items[i])]
    \o <<NoteLine("h2_other", << >>), NoteLine("plain", << >>)>>

\* The notes given to extract_tasks.py and importer.py.
SampleNotes ==
    { NoteOf(<<ItemDue(0)>>), NoteOf(<<ItemNoOwner>>), NoteOf(<<ItemShort, ItemNoOwner>>) }

\* The arguments given to create_task.
CreateParams ==
    { [title |-> Words(<<"fix", "typo">>), priority |-> TextV("low"),
       due_date |-> Absent, confidence |-> FloatV(c)] : c \in {30, 100} }

\* The fields given to update_task.
UpdateParams ==
    { [field |-> "status", value |-> TextV("done")],
      [field |-> "impact", value |-> IntV(9)],
      [field |-> "due_date", value |-> DateV(0)] }

\* The environments of the external estimator.
LlmEnv(api_key, anthropic, rubrics, reply) ==
    [api_key |-> api_key, anthropic |-> anthropic, rubrics |-> rubrics,
     reply |-> reply, impact |-> 2, effort |-> 12]

LlmEnvs ==
    { LlmEnv(FALSE, TRUE, TRUE, "ok"), LlmEnv(TRUE, FALSE, TRUE, "ok"),
      LlmEnv(TRUE, TRUE, FALSE, "ok"), LlmEnv(TRUE, TRUE, TRUE, "bad_json"),
      LlmEnv(TRUE, TRUE, TRUE, "transport_error"), LlmEnv(TRUE, TRUE, TRUE, "ok") }

\* The command lines of score_tasks.py and scorer.py: every environment
\* without flags, and each flag once.
ScoreRuns ==
    { [dry_run |-> FALSE, no_llm |-> FALSE, env |-> e] : e \in LlmEnvs }
    \cup { [dry_run |-> TRUE, no_llm |-> FALSE, env |-> LlmEnv(TRUE, TRUE, TRUE, "ok")],
           [dry_run |-> FALSE, no_llm |-> TRUE, env |-> LlmEnv(TRUE, TRUE, TRUE, "ok")] }

NoCall == [f |-> "none"]

(***************************************************************************)
(* The store: extract_tasks.py, score_tasks.py, server.py, importer.py and *)
(* scorer.py working on the stores.                                        *)
(***************************************************************************)
Init ==
    /\ today = 0
    /\ ops = 0
    /\ tasks = NoFiles
    /\ flagged = NoFiles
    /\ backlog = NoFiles
    /\ dirs = {}
    /\ last = Report("none", FALSE, "ok", << >>)
    /\ fnArgs = NoCall
    /\ fnRet = NoCall

\* The date changes.
Tick ==
    /\ today < LastToday
    /\ today' = today + 1
    /\ UNCHANGED <<ops, tasks, flagged, backlog, dirs, last, fnArgs, fnRet>>

\* One more invocation.
Invoke ==
    /\ ops < MaxOps
    /\ ops' = ops + 1

\* python3 scripts/extract_tasks.py note --impl A [--dry-run]
ExtractMain(note, dry_run) ==
    LET items == extract_action_items(note)
        r     == ExtractLoop(items, 1, tasks, flagged, dirs, << >>, dry_run, today)
    IN  /\ Invoke
        /\ items # << >>     \* if not raw_items: sys.exit(0), nothing changed
        /\ extract_next_task_id(tasks, flagged) + Len(items) - 1 <= MaxId
        /\ tasks' = r.live
        /\ flagged' = r.flagged
        /\ dirs' = r.dirs
        /\ last' = Report("extract_tasks", dry_run, "ok", r.routed)
        /\ UNCHANGED <<today, backlog, fnArgs, fnRet>>

\* python3 scripts/score_tasks.py --impl A [--dry-run] [--no-llm]
ScoreMain(dry_run, no_llm, env) ==
    LET r == ScoreLoop(tasks, 0, dry_run, no_llm, env, today)
    IN  /\ Invoke
        /\ "tasks" \in dirs
        /\ tasks # NoFiles
        /\ tasks' = r.store
        /\ last' = Report("score_tasks", dry_run,
                          IF r.aborted THEN "aborted" ELSE "ok", << >>)
        /\ UNCHANGED <<today, flagged, backlog, dirs, fnArgs, fnRet>>

\* The create_task tool.
CreateTask(params) ==
    LET task_id == server_next_task_id(tasks)
    IN  /\ Invoke
        /\ task_id <= MaxId
        /\ tasks' = Put(tasks, task_id, tool_create_task(params, today))
        /\ dirs' = dirs \cup {"tasks"}
        /\ last' = Report("create_task", FALSE, "ok",
                          <<Routed(params.confidence.v, "live")>>)
        /\ UNCHANGED <<today, flagged, backlog, fnArgs, fnRet>>

\* The update_task tool.
UpdateTask(task_id, params) ==
    /\ Invoke
    /\ IF task_id \in Ids(tasks)
       THEN /\ tasks' = [tasks EXCEPT
                            ![task_id] = tool_update_task(@, params.field, params.value)]
            /\ last' = Report("update_task", FALSE, "ok", << >>)
       ELSE /\ tasks' = not_found(tasks).store
            /\ last' = Report("update_task", FALSE, not_found(tasks).status, << >>)
    /\ UNCHANGED <<today, flagged, backlog, dirs, fnArgs, fnRet>>

\* The complete_task tool.
CompleteTask(task_id) ==
    /\ Invoke
    /\ IF task_id \in Ids(tasks)
       THEN /\ tasks' = [tasks EXCEPT ![task_id] = tool_complete_task(@, today)]
            /\ last' = Report("complete_task", FALSE, "ok", << >>)
       ELSE /\ tasks' = not_found(tasks).store
            /\ last' = Report("complete_task", FALSE, not_found(tasks).status, << >>)
    /\ UNCHANGED <<today, flagged, backlog, dirs, fnArgs, fnRet>>

\* python importer.py note [--dry-run], the backlog CLI not installed.
ImportMain(note, dry_run) ==
    LET items == extract_action_items(note)
        r     == ImportLoop(items, 1, [store |-> backlog, dirs |-> dirs],
                            Cardinality(Ids(backlog)) + 1, << >>, dry_run)
    IN  /\ Invoke
        /\ items # << >>     \* if not raw_items: sys.exit(0), nothing changed
        /\ Cardinality(Ids(backlog)) + Len(items) <= MaxId
        /\ backlog' = r.store
        /\ dirs' = r.dirs
        /\ last' = Report("importer", dry_run, "ok", r.routed)
        /\ UNCHANGED <<today, tasks, flagged, fnArgs, fnRet>>

\* python scorer.py [--dry-run] [--no-llm]
ScorerMain(dry_run, no_llm, env) ==
    LET r == ScorerLoop(backlog, 0, dry_run, no_llm, env, today)
    IN  /\ Invoke
        /\ "backlog/tasks" \in dirs
        /\ backlog # NoFiles
        /\ backlog' = r.store
        /\ last' = Report("scorer", dry_run,
                          IF r.aborted THEN "aborted" ELSE "ok", << >>)
        /\ UNCHANGED <<today, tasks, flagged, dirs, fnArgs, fnRet>>

Next ==
    \/ Tick
    \/ \E note \in SampleNotes, dry_run \in BOOLEAN : ExtractMain(note, dry_run)
    \/ \E run \in ScoreRuns : ScoreMain(run.dry_run, run.no_llm, run.env)
    \/ \E params \in CreateParams : CreateTask(params)
    \/ \E task_id \in 1..MaxId, params \in UpdateParams : UpdateTask(task_id, params)
    \/ \E task_id \in 1..MaxId : CompleteTask(task_id)

\* The live store of implementation A and the flagged store.
Spec == Init /\ [][Next]_vars

NextBacklog ==
    \/ Tick
    \/ \E note \in SampleNotes, dry_run \in BOOLEAN : ImportMain(note, dry_run)
    \/ \E run \in ScoreRuns : ScorerMain(run.dry_run, run.no_llm, run.env)

\* The backlog store of implementation C.
SpecBacklog == Init /\ [][NextBacklog]_vars

(***************************************************************************)
(* The record codec on characters: render_frontmatter and the header       *)
(* parsers of scripts/score_tasks.py and of server.py. A text is a         *)
(* sequence of one-character strings; a field mapping is a sequence of     *)
(* <<key, value>> pairs in insertion order.                                *)
(***************************************************************************)
DigitChars == <<"0", "1", "2", "3", "4", "5", "6", "7", "8", "9">>

IsDigit(c) == \E d \in 1..Len(DigitChars) : DigitChars[d] = c

DigitVal(c) == (CHOOSE d \in 1..Len(DigitChars) : DigitChars[d] = c) - 1

RECURSIVE NatChars(_)
NatChars(n) ==
    IF n < 10 THEN <<DigitChars[n + 1]>>
    ELSE NatChars(n \div 10) \o <<DigitChars[(n % 10) + 1]>>

RECURSIVE NatOf(_)
NatOf(cs) ==
    IF Len(cs) = 0 THEN 0
    ELSE NatOf(SubSeq(cs, 1, Len(cs) - 1)) * 10 + DigitVal(cs[Len(cs)])

\* f"{val}" of an integer.
IntChars(n) == IF n < 0 THEN <<"-">> \o NatChars(-n) ELSE NatChars(n)

\* f"{val:.1f}" of a float of h hundredths.
FloatChars(h) ==
    LET t == Fmt1(h)
        a == IF t < 0 THEN -t ELSE t
    IN  (IF t < 0 THEN <<"-">> ELSE << >>)
        \o NatChars(a \div 100) \o <<".">> \o NatChars((a % 100) \div 10)

AllDigits(cs) == Len(cs) > 0 /\ \A i \in 1..Len(cs) : IsDigit(cs[i])

Unsigned(cs) == IF Len(cs) > 0 /\ cs[1] = "-" THEN Tail(cs) ELSE cs

\* ^-?\d+$ when signed, ^\d+$ otherwise.
IsIntLit(cs, signed) == AllDigits(IF signed THEN Unsigned(cs) ELSE cs)

\* ^-?\d+\.\d+$ when signed, ^\d+\.\d+$ otherwise.
IsFloatLit(cs, signed) ==
    LET b == IF signed THEN Unsigned(cs) ELSE cs
    IN  \E p \in 1..Len(b) :
            /\ b[p] = "."
            /\ AllDigits(SubSeq(b, 1, p - 1))
            /\ AllDigits(SubSeq(b, p + 1, Len(b)))

IntOf(cs) == IF Len(cs) > 0 /\ cs[1] = "-" THEN -NatOf(Tail(cs)) ELSE NatOf(cs)

\* float(raw) in hundredths, for a literal of one or two decimals.
FloatOf(cs) ==
    LET b    == Unsigned(cs)
        p    == CHOOSE q \in 1..Len(b) : b[q] = "."
        frac == SubSeq(b, p + 1, Len(b))
        mag  == NatOf(SubSeq(b, 1, p - 1)) * 100
                + (IF Len(frac) = 1 THEN NatOf(frac) * 10 ELSE NatOf(SubSeq(frac, 1, 2)))
    IN  IF Len(cs) > 0 /\ cs[1] = "-" THEN -mag ELSE mag

\* str.strip(chars)
RECURSIVE StripChars(_, _)
StripChars(cs, S) ==
    IF Len(cs) = 0 THEN cs
    ELSE IF cs[1] \in S THEN StripChars(Tail(cs), S)
    ELSE IF cs[Len(cs)] \in S THEN StripChars(SubSeq(cs, 1, Len(cs) - 1), S)
    ELSE cs

Spaces == {" "}

Quotes == {"\"", "'"}

\* str.lower()
LowerChars(cs) ==
    [i \in 1..Len(cs) |->
        CASE cs[i] = "N" -> "n" [] cs[i] = "U" -> "u" [] cs[i] = "L" -> "l"
          [] OTHER -> cs[i]]

Bracketed(cs) == Len(cs) > 0 /\ cs[1] = "[" /\ cs[Len(cs)] = "]"

ListV(elems) == [t |-> "list", v |-> elems]

JsonError == [ok |-> FALSE, v |-> Absent]

\* The pieces of cs between commas.
RECURSIVE SplitComma(_)
SplitComma(cs) ==
    LET commas == {i \in 1..Len(cs) : cs[i] = ","}
    IN  IF commas = {} THEN <<cs>>
        ELSE LET c == CHOOSE i \in commas : \A m \in commas : i <= m
             IN  <<SubSeq(cs, 1, c - 1)>> \o SplitComma(SubSeq(cs, c + 1, Len(cs)))

\* One element of a JSON array: a string without escapes or an integer.
JsonElement(piece) ==
    LET e == StripChars(piece, Spaces)
    IN  IF /\ Len(e) >= 2 /\ e[1] = "\"" /\ e[Len(e)] = "\""
           /\ \A i \in 2..(Len(e) - 1) : e[i] # "\""
        THEN [ok |-> TRUE, v |-> TextV(SubSeq(e, 2, Len(e) - 1))]
        ELSE IF IsIntLit(e, TRUE) THEN [ok |-> TRUE, v |-> IntV(IntOf(e))]
        ELSE JsonError

\* json.loads of a text that begins with [ and ends with ]: the list, or
\* ValueError. Elements are strings without commas or escapes, or integers.
json_loads(cs) ==
    LET inner  == StripChars(SubSeq(cs, 2, Len(cs) - 1), Spaces)
        pieces == SplitComma(inner)
    IN  IF ~Bracketed(cs) \/ Len(cs) < 2 THEN JsonError
        ELSE IF Len(inner) = 0 THEN [ok |-> TRUE, v |-> ListV(<< >>)]
        ELSE IF \A i \in 1..Len(pieces) : JsonElement(pieces[i]).ok
        THEN [ok |-> TRUE, v |-> ListV([i \in 1..Len(pieces) |-> JsonElement(pieces[i]).v])]
        ELSE JsonError

\* json.dumps of a list of strings without escapes and integers.
RECURSIVE json_dumps_from(_, _)
json_dumps_from(elems, k) ==
    IF k > Len(elems) THEN << >>
    ELSE (IF k > 1 THEN <<",", " ">> ELSE << >>)
         \o (IF elems[k].t = "int" THEN IntChars(elems[k].v)
             ELSE <<"\"">> \o elems[k].v \o <<"\"">>)
         \o json_dumps_from(elems, k + 1)

json_dumps(elems) == <<"[">> \o json_dumps_from(elems, 1) \o <<"]">>

\* The text render_frontmatter writes after "key: " for one value (the same
\* code in score_tasks.py and in server.py).
render_value(val) ==
    CASE val.t = "absent" -> <<"n", "u", "l", "l">>
      [] val.t = "list"   -> json_dumps(val.v)
      [] val.t = "text"   ->
            LET stripped == StripChars(val.v, Spaces)
            IN  IF Bracketed(stripped) /\ json_loads(stripped).ok
                THEN json_dumps(json_loads(stripped).v.v)
                ELSE <<"\"">> \o val.v \o <<"\"">>
      [] val.t = "float"  -> FloatChars(val.v)
      [] val.t = "int"    -> IntChars(val.v)

\* render_frontmatter(fm): one line per field, as <<key, text after "key: ">>.
render_frontmatter(fm) ==
    [i \in 1..Len(fm) |-> <<fm[i][1], render_value(fm[i][2])>>]

NullWords == {<<"n", "u", "l", "l">>, <<"~">>}

\* One line of _minimal_yaml_parse of score_tasks.py: the value of the text
\* after "key:".
score_minimal_value(text) ==
    LET raw   == StripChars(text, Spaces)
        inner == StripChars(raw, Quotes)
    IN  IF Bracketed(inner) /\ json_loads(inner).ok THEN json_loads(inner).v
        ELSE IF LowerChars(raw) \in NullWords \cup {<< >>} THEN Absent
        ELSE IF IsFloatLit(raw, TRUE) THEN FloatV(FloatOf(raw))
        ELSE IF IsIntLit(raw, TRUE) THEN IntV(IntOf(raw))
        ELSE TextV(StripChars(raw, Quotes))

\* One line of _minimal_yaml_parse of server.py: quotes are stripped before
\* the type is inferred, numbers have no sign, there are no lists.
server_minimal_value(text) ==
    LET val == StripChars(StripChars(text, Spaces), Quotes)
    IN  IF LowerChars(val) \in NullWords THEN Absent
        ELSE IF IsFloatLit(val, FALSE) THEN FloatV(FloatOf(val))
        ELSE IF IsIntLit(val, FALSE) THEN IntV(IntOf(val))
        ELSE TextV(val)

\* yaml.safe_load of one "key: text" line, for the texts render_frontmatter
\* writes: null, a number, a JSON list (a flow sequence) or a double-quoted
\* scalar. A double-quoted scalar ends at its next double quote; anything
\* after it, or no closing quote, is a YAMLError.
yaml_value(text) ==
    LET raw    == StripChars(text, Spaces)
        closes == {j \in 2..Len(raw) : raw[j] = "\""}
    IN  IF Len(raw) > 0 /\ raw[1] = "\""
        THEN IF closes # {} /\ (CHOOSE j \in closes : \A m \in closes : j <= m) = Len(raw)
             THEN [ok |-> TRUE, v |-> TextV(SubSeq(raw, 2, Len(raw) - 1))]
             ELSE JsonError
        ELSE IF Bracketed(raw) THEN json_loads(raw)
        ELSE IF LowerChars(raw) \in NullWords \cup {<< >>} THEN [ok |-> TRUE, v |-> Absent]
        ELSE IF IsFloatLit(raw, TRUE) THEN [ok |-> TRUE, v |-> FloatV(FloatOf(raw))]
        ELSE IF IsIntLit(raw, TRUE) THEN [ok |-> TRUE, v |-> IntV(IntOf(raw))]
        ELSE [ok |-> TRUE, v |-> TextV(raw)]

YamlOk(lines) == \A i \in 1..Len(lines) : yaml_value(lines[i][2]).ok

\* The field mapping parse_frontmatter of score_tasks.py reads from header
\* lines: yaml.safe_load, _minimal_yaml_parse on YAMLError or without yaml.
score_parse_fields(lines, has_yaml) ==
    IF has_yaml /\ YamlOk(lines)
    THEN [i \in 1..Len(lines) |-> <<lines[i][1], yaml_value(lines[i][2]).v>>]
    ELSE [i \in 1..Len(lines) |-> <<lines[i][1], score_minimal_value(lines[i][2])>>]

\* The same of server.py: the empty mapping on YAMLError.
server_parse_fields(lines, has_yaml) ==
    IF has_yaml
    THEN IF YamlOk(lines)
         THEN [i \in 1..Len(lines) |-> <<lines[i][1], yaml_value(lines[i][2]).v>>]
         ELSE << >>
    ELSE [i \in 1..Len(lines) |-> <<lines[i][1], server_minimal_value(lines[i][2])>>]

parse_fields(codec, lines, has_yaml) ==
    IF codec = "score_tasks" THEN score_parse_fields(lines, has_yaml)
    ELSE server_parse_fields(lines, has_yaml)

\* Header values: absent, integers, one-decimal floats, texts, lists of text.
CodecTexts ==
    { << >>, <<"a">>, <<"a", " ", "b">>, <<" ", "a">>, <<"n", "u", "l", "l">>, <<"~">>,
      <<"5">>, <<"5", ".", "4">>, <<"-", "1">>, <<"a", "\"">>, <<"\"", "a">>,
      <<"'", "a", "'">>, <<"a", "\"", "b">>, <<"[", "\"", "a", "\"", "]">>,
      <<"[", "]">>, <<"[", "a", "]">>, <<"N", "U", "L", "L">> }

CodecValues ==
    {Absent} \cup {IntV(n) : n \in {-1, 0, 7, MaxStored}}
    \cup {FloatV(h) : h \in {-120, 0, 540, 1000}}
    \cup {TextV(cs) : cs \in CodecTexts}
    \cup {ListV(<< >>), ListV(<<TextV(<<"a">>)>>),
          ListV(<<TextV(<<"a">>), TextV(<<"b">>)>>)}

Codecs == {"score_tasks", "server"}

(***************************************************************************)
(* parse_frontmatter on a text, a sequence of lines: the delimiter line    *)
(* "---", a "key: value" line, a line that is not of that form, a blank    *)
(* line, a line of body text.                                              *)
(***************************************************************************)
Line(kind, key, text) == [k |-> kind, key |-> key, text |-> text]

Delim == Line("delim", "", << >>)

Kv(key, text) == Line("kv", key, text)

Junk == Line("junk", "", <<"a">>)

Blank == Line("blank", "", << >>)

BodyLine == Line("body", "", <<"b">>)

\* str.strip() of a block of lines: the blank lines at both ends go.
RECURSIVE StripBlank(_)
StripBlank(lines) ==
    IF Len(lines) = 0 THEN lines
    ELSE IF lines[1] = Blank THEN StripBlank(Tail(lines))
    ELSE IF lines[Len(lines)] = Blank THEN StripBlank(SubSeq(lines, 1, Len(lines) - 1))
    ELSE lines

IsKv(line) == line.k = "kv"

\* A dict filled in line order: a key keeps its first position and its last
\* value.
RECURSIVE DictOf(_)
DictOf(pairs) ==
    IF Len(pairs) = 0 THEN << >>
    ELSE LET init == DictOf(SubSeq(pairs, 1, Len(pairs) - 1))
             p    == pairs[Len(pairs)]
         IN  IF \E i \in 1..Len(init) : init[i][1] = p[1]
             THEN [i \in 1..Len(init) |-> IF init[i][1] = p[1] THEN p ELSE init[i]]
             ELSE Append(init, p)

\* The header block parsed by one of the two codecs. With yaml, lines that
\* are no "key: value" lines make the block one plain scalar (a text, not a
\* mapping) when there is nothing else, and a YAMLError next to a mapping.
header_fields(codec, header, has_yaml) ==
    LET kvs   == SelectSeq(header, IsKv)
        pairs == [i \in 1..Len(kvs) |-> <<kvs[i].key, kvs[i].text>>]
        junk  == \E i \in 1..Len(header) : header[i].k \in {"junk", "body"}
    IN  IF has_yaml /\ junk /\ Len(kvs) = 0
        THEN [mapping |-> FALSE, fm |-> << >>]
        ELSE IF has_yaml /\ junk
        THEN [mapping |-> TRUE,
              fm |-> IF codec = "score_tasks"
                     THEN DictOf(score_parse_fields(pairs, FALSE)) ELSE << >>]
        ELSE [mapping |-> TRUE, fm |-> DictOf(parse_fields(codec, pairs, has_yaml))]

\* parse_frontmatter(text) of score_tasks.py and of server.py:
\* [mapping, fm, body], mapping FALSE when fm is not a dict.
parse_frontmatter(codec, text, has_yaml) ==
    LET closing == {i \in 2..Len(text) : text[i] = Delim}
        end     == CHOOSE i \in closing : \A m \in closing : i <= m
        parsed  == header_fields(codec, SubSeq(text, 2, end - 1), has_yaml)
    IN  IF Len(text) = 0 \/ text[1] # Delim
        THEN [mapping |-> TRUE, fm |-> << >>, body |-> text]
        ELSE IF closing = {}
        THEN [mapping |-> TRUE, fm |-> << >>, body |-> text]
        ELSE [mapping |-> parsed.mapping, fm |-> parsed.fm,
              body |-> StripBlank(SubSeq(text, end + 1, Len(text)))]

\* The longest text given to parse_frontmatter, in lines.
MaxLines == 4

TextLines ==
    { Delim, Kv("title", <<"\"", "a", "\"">>), Kv("title", <<"\"", "a", "\"", "b", "\"">>),
      Kv("urgency", <<"7">>), Junk, Blank, BodyLine }

RECURSIVE TextsOf(_)
TextsOf(n) ==
    IF n = 0 THEN { << >> }
    ELSE LET shorter == TextsOf(n - 1)
         IN  shorter \cup { Append(t, l) : t \in {s \in shorter : Len(s) = n - 1},
                                           l \in TextLines }

Texts == TextsOf(MaxLines)

(***************************************************************************)
(* The pure functions, each applied once to an argument drawn from its     *)
(* input set.                                                              *)
(***************************************************************************)
Levels == LevelMin..LevelMax

\* A header with the fields compute_urgency reads.
UrgencyFm(stored, title, due_date) ==
    [title |-> title, urgency |-> stored, due_date |-> due_date]

StoredUrgencies ==
    {Absent, TextV("high"), FloatV(700)} \cup {IntV(n) : n \in (-1)..MaxStored}

DueDates ==
    {Absent, TextV("null"), TextV(""), TextV("eod")} \cup {DateV(d) : d \in 0..MaxDay}

UrgencyTitles ==
    { Words(<<"fix", "login", "bug">>), Words(<<"ASAP">>),
      Words(<<"critical", "outage", "today">>),
      Words(<<"ship", "by", "end", "of", "day">>) }

\* The words of the keywords of `table` chosen by `pick`, in table order.
RECURSIVE KeywordText(_, _, _)
KeywordText(table, k, pick) ==
    IF k > Len(table) THEN << >>
    ELSE (IF k \in pick THEN Words(table[k].kw) ELSE << >>)
         \o KeywordText(table, k + 1, pick)

\* Raw action items: the sample items, and one text for every set of
\* extraction keywords.
RawItems ==
    {ItemDue(0), ItemNoOwner, ItemShort, ItemNoDash(0), ItemEleven, ItemDueOnly,
     ItemOwnerDue, ItemDepends, ItemBare, ItemShout}
    \cup { KeywordText(extract_URGENCY_KEYWORDS, 1, pick) :
              pick \in SUBSET (1..Len(extract_URGENCY_KEYWORDS)) }

\* The lines the notes given to extract_action_items are made of.
NoteLines ==
    { NoteLine("h2_action_items", << >>), NoteLine("h2_action_items_more", << >>),
      NoteLine("h2_other", << >>), NoteLine("h3", << >>),
      NoteLine("checkbox", ItemShort), NoteLine("checkbox_done", ItemBare),
      NoteLine("bullet", ItemShort), NoteLine("plain", << >>) }

MaxNoteLines == 4

RECURSIVE NotesOf(_)
NotesOf(n) ==
    IF n = 0 THEN { << >> }
    ELSE LET shorter == NotesOf(n - 1)
         IN  shorter \cup { Append(note, line) : note \in shorter, line \in NoteLines }

Notes == NotesOf(MaxNoteLines)

\* One write cycle on a header: render_frontmatter(parse(header)).
write_cycle(codec, lines, has_yaml) ==
    render_frontmatter(parse_fields(codec, lines, has_yaml))

\* The texts after "key: " of the headers given to the write cycles: what
\* render_frontmatter writes for the header values, a few unquoted texts as
\* written by hand, and a list written as a quoted bracketed string.
HeaderTexts ==
    { render_value(val) : val \in CodecValues }
    \cup { <<"a">>, <<"a", " ", "b">>, <<"a", "\"">>, <<"a", "\"", "b">>,
           <<"\"", "[", "\"", "a", "\"", "]", "\"">> }

\* The words of the picked phrases of a keyword list, in order.
RECURSIVE PhraseText(_, _, _)
PhraseText(kws, k, pick) ==
    IF k > Len(kws) THEN << >>
    ELSE (IF k \in pick THEN Words(kws[k]) ELSE << >>) \o PhraseText(kws, k + 1, pick)

\* A title for every combination of hard and easy keywords.
HeuristicTitles ==
    { PhraseText(hard_keywords, 1, hard) \o PhraseText(easy_keywords, 1, easy) :
        hard \in SUBSET (1..Len(hard_keywords)), easy \in SUBSET (1..Len(easy_keywords)) }

InitFn ==
    /\ today = 0
    /\ ops = 0
    /\ tasks = NoFiles
    /\ flagged = NoFiles
    /\ backlog = NoFiles
    /\ dirs = {}
    /\ last = Report("none", FALSE, "ok", << >>)
    /\ fnRet = NoCall
    /\ \/ \E u \in Levels, i \in Levels, e \in Levels :
             fnArgs = [f |-> "compute_score", urgency |-> u, impact |-> i, effort |-> e]
       \/ \E stored \in StoredUrgencies, title \in UrgencyTitles, due \in DueDates,
             body \in {<< >>, Words(<<"soon">>)}, now \in {0, 3} :
             fnArgs = [f |-> "compute_urgency", fm |-> UrgencyFm(stored, title, due),
                       body |-> body, now |-> now]
       \/ \E raw \in RawItems :
             fnArgs = [f |-> "parse_action_item", raw |-> raw]
       \/ \E codec \in Codecs, has_yaml \in BOOLEAN,
             title \in CodecValues, labels \in CodecValues :
             fnArgs = [f |-> "round_trip", codec |-> codec, has_yaml |-> has_yaml,
                       fields |-> << <<"title", title>>, <<"labels", labels>> >>]
       \/ \E codec \in Codecs, has_yaml \in BOOLEAN, text \in Texts :
             fnArgs = [f |-> "parse_frontmatter", codec |-> codec,
                       has_yaml |-> has_yaml, text |-> text]
       \/ \E note \in Notes :
             fnArgs = [f |-> "extract_action_items", text |-> note]
       \/ \E raw \in RawItems :
             fnArgs = [f |-> "route", raw |-> raw]
       \/ \E codec \in Codecs, has_yaml \in BOOLEAN,
             title \in HeaderTexts, labels \in HeaderTexts :
             fnArgs = [f |-> "write_cycles", codec |-> codec, has_yaml |-> has_yaml,
                       header |-> << <<"title", title>>, <<"labels", labels>> >>]
       \/ \E title \in HeuristicTitles, priority \in {TextV("medium"), TextV("high")} :
             fnArgs = [f |-> "heuristic_impact_effort",
                       fm |-> [title |-> title, priority |-> priority]]

CallComputeScore ==
    /\ fnArgs.f = "compute_score"
    /\ fnRet = NoCall
    /\ fnRet' = [f |-> "compute_score",
                 v |-> compute_score(fnArgs.urgency, fnArgs.impact, fnArgs.effort)]
    /\ UNCHANGED <<today, ops, tasks, flagged, backlog, dirs, last, fnArgs>>

CallComputeUrgency ==
    /\ fnArgs.f = "compute_urgency"
    /\ fnRet = NoCall
    /\ fnRet' = [f |-> "compute_urgency",
                 v |-> compute_urgency(fnArgs.fm, fnArgs.body, fnArgs.now)]
    /\ UNCHANGED <<today, ops, tasks, flagged, backlog, dirs, last, fnArgs>>

CallParseActionItem ==
    /\ fnArgs.f = "parse_action_item"
    /\ fnRet = NoCall
    /\ fnRet' = [f |-> "parse_action_item", v |-> parse_action_item(fnArgs.raw)]
    /\ UNCHANGED <<today, ops, tasks, flagged, backlog, dirs, last, fnArgs>>

\* parse(render(fields)) with one of the two codecs.
CallRoundTrip ==
    /\ fnArgs.f = "round_trip"
    /\ fnRet = NoCall
    /\ fnRet' = [f |-> "round_trip",
                 v |-> parse_fields(fnArgs.codec, render_frontmatter(fnArgs.fields),
                                    fnArgs.has_yaml)]
    /\ UNCHANGED <<today, ops, tasks, flagged, backlog, dirs, last, fnArgs>>

CallParseFrontmatter ==
    /\ fnArgs.f = "parse_frontmatter"
    /\ fnRet = NoCall
    /\ fnRet' = [f |-> "parse_frontmatter",
                 v |-> parse_frontmatter(fnArgs.codec, fnArgs.text, fnArgs.has_yaml)]
    /\ UNCHANGED <<today, ops, tasks, flagged, backlog, dirs, last, fnArgs>>

CallExtractActionItems ==
    /\ fnArgs.f = "extract_action_items"
    /\ fnRet = NoCall
    /\ fnRet' = [f |-> "extract_action_items", v |-> extract_action_items(fnArgs.text)]
    /\ UNCHANGED <<today, ops, tasks, flagged, backlog, dirs, last, fnArgs>>

\* One turn of the loop of main of extract_tasks.py, up to the choice of the
\* directory: the parsed fields and the destination.
CallRoute ==
    /\ fnArgs.f = "route"
    /\ fnRet = NoCall
    /\ fnRet' = LET fields == parse_action_item(fnArgs.raw)
                IN  [f |-> "route",
                     v |-> [fields |-> fields, dest |-> route(fields.confidence)]]
    /\ UNCHANGED <<today, ops, tasks, flagged, backlog, dirs, last, fnArgs>>

CallHeuristicImpactEffort ==
    /\ fnArgs.f = "heuristic_impact_effort"
    /\ fnRet = NoCall
    /\ fnRet' = [f |-> "heuristic_impact_effort", v |-> heuristic_impact_effort(fnArgs.fm)]
    /\ UNCHANGED <<today, ops, tasks, flagged, backlog, dirs, last, fnArgs>>

\* Two write cycles on a header: the header text after the first and after
\* the second.
CallWriteCycles ==
    /\ fnArgs.f = "write_cycles"
    /\ fnRet = NoCall
    /\ fnRet' = LET first == write_cycle(fnArgs.codec, fnArgs.header, fnArgs.has_yaml)
                IN  [f |-> "write_cycles",
                     v |-> [first  |-> first,
                            second |-> write_cycle(fnArgs.codec, first, fnArgs.has_yaml)]]
    /\ UNCHANGED <<today, ops, tasks, flagged, backlog, dirs, last, fnArgs>>

NextFn ==
    \/ CallComputeScore
    \/ CallComputeUrgency
    \/ CallParseActionItem
    \/ CallRoundTrip
    \/ CallParseFrontmatter
    \/ CallExtractActionItems
    \/ CallRoute
    \/ CallHeuristicImpactEffort
    \/ CallWriteCycles

SpecFn == InitFn /\ [][NextFn]_vars

(***************************************************************************)
(* Properties.                                                             *)
(***************************************************************************)
IsStoredBaseline(stored) == stored.t = "int" /\ stored.v > 0

\* The boost the specification gives for days_left days to the due date.
ProximityBoost(days_left) ==
    IF days_left <= 0 THEN 4
    ELSE IF days_left <= 2 THEN 3
    ELSE IF days_left <= 7 THEN 2
    ELSE IF days_left <= 14 THEN 1
    ELSE 0

\* C7: compute_urgency adds the deadline-proximity boost whether the
\* baseline is a stored positive integer or recomputed from keywords: with
\* an ISO due date the result is min(10, stored + boost) for a stored
\* baseline and at least min(10, 5 + boost) for a recomputed one; stored
\* urgency 5 with the due date today gives at least 9.
C7_DeadlineAlwaysApplied ==
    (fnRet.f = "compute_urgency" /\ fnArgs.fm.due_date.t = "date") =>
        LET stored == fnArgs.fm.urgency
            days   == fnArgs.fm.due_date.v - fnArgs.now
            boost  == ProximityBoost(days)
        IN  /\ IsStoredBaseline(stored) => fnRet.v = Min(10, stored.v + boost)
            /\ ~IsStoredBaseline(stored) => fnRet.v >= Min(10, 5 + boost)
            /\ (stored = IntV(5) /\ days = 0) => fnRet.v >= 9

\* A record with stored urgency 5 and due today has been re-scored to 9.
C7_Witness ==
    /\ fnRet.f = "compute_urgency"
    /\ fnArgs.fm.urgency = IntV(5)
    /\ fnArgs.fm.due_date = DateV(fnArgs.now)
    /\ fnRet.v = 9

\* C8: for urgency, impact, effort in 1..10 compute_score is exactly
\* urgency*0.4 + impact*0.4 - effort*0.2 (a multiple of 0.1, so rounding
\* changes nothing and nothing is clamped); score(8, 7, 3) is 5.4.
C8_ScoreFormula ==
    fnRet.f = "compute_score" =>
        /\ fnRet.v = 40 * fnArgs.urgency + 40 * fnArgs.impact - 20 * fnArgs.effort
        /\ (fnArgs.urgency = 8 /\ fnArgs.impact = 7 /\ fnArgs.effort = 3) => fnRet.v = 540

\* score(8, 7, 3) has been computed.
C8_Witness ==
    /\ fnRet.f = "compute_score"
    /\ fnArgs.urgency = 8 /\ fnArgs.impact = 7 /\ fnArgs.effort = 3
    /\ fnRet.v = 540

\* C9 as stated: for urgency, impact, effort in 1..10 the score lies in
\* [0.2, 10.0].
C9_ScoreRangeAsStated ==
    fnRet.f = "compute_score" => (fnRet.v >= 20 /\ fnRet.v <= 1000)

\* C9: for urgency, impact, effort in 1..10 the score lies in [-1.2, 7.8].
C9_ScoreRange ==
    fnRet.f = "compute_score" => (fnRet.v >= -120 /\ fnRet.v <= 780)

\* The lowest score, score(1, 1, 10) = -1.2, has been computed.
C9_Witness ==
    /\ fnRet.f = "compute_score"
    /\ fnArgs.urgency = 1 /\ fnArgs.impact = 1 /\ fnArgs.effort = 10
    /\ fnRet.v = -120

\* C10: the urgency parse_action_item computes for any raw text and the
\* urgency compute_urgency computes for any record (stored urgency absent,
\* not an integer, non-positive or above 10; any due date) is in 1..10.
C10_UrgencyBound ==
    /\ fnRet.f = "compute_urgency" => fnRet.v \in 1..10
    /\ fnRet.f = "parse_action_item" => fnRet.v.urgency \in 1..10

\* A record whose stored urgency is above 10 has been re-scored to 10.
C10_Witness ==
    /\ fnRet.f = "compute_urgency"
    /\ fnArgs.fm.urgency.t = "int"
    /\ fnArgs.fm.urgency.v > 10
    /\ fnRet.v = 10

Present(x) == x # Absent

AllFiles(store) == {store[i] : i \in Ids(store)}

\* C1: in every reachable state of the record store each record's score is
\* round(urgency*0.4 + impact*0.4 - effort*0.2, 1) of its current urgency,
\* impact and effort when the three are present, and absent otherwise.
C1_ScoreMatchesFields ==
    \A file \in AllFiles(tasks) \cup AllFiles(flagged) :
        LET fm == file.fm
        IN  IF Present(fm.urgency) /\ Present(fm.impact) /\ Present(fm.effort)
            THEN fm.score = FloatV(40 * fm.urgency.v + 40 * fm.impact.v - 20 * fm.effort.v)
            ELSE fm.score = Absent

\* The urgency, impact, effort and score a record file holds.
Scored(file) ==
    <<file.fm.urgency, file.fm.impact, file.fm.effort, file.fm.score>>

\* C2: re-scoring is idempotent: the scoring pass (not dry-run, no external
\* estimator) applied twice on the same date to a record of the store leaves
\* the same urgency, impact, effort and score as applied once.
C2_RescoreIdempotent ==
    \A file \in AllFiles(tasks) :
        LET env   == LlmEnv(FALSE, TRUE, TRUE, "ok")
            once  == score_task_file(file, FALSE, TRUE, env, today)
            twice == score_task_file(once.file, FALSE, TRUE, env, today)
        IN  Scored(twice.file) = Scored(once.file)

\* C3: on every creation path a candidate with confidence below 0.7 is
\* written to the flagged store and never to the live store, and a candidate
\* with confidence 0.7 or more goes to the live store.
C3_TriageRouting ==
    /\ \A k \in 1..Len(last.routed) :
           last.routed[k].dest =
               (IF last.routed[k].confidence < CONFIDENCE_THRESHOLD
                THEN "flagged" ELSE "live")
    /\ \A file \in AllFiles(tasks) \cup AllFiles(backlog) :
           Present(file.fm.confidence) => file.fm.confidence.v >= CONFIDENCE_THRESHOLD

\* C4: a scoring pass never overwrites an impact or effort that is already
\* on the record: when exactly one of the two is present before the pass, it
\* is unchanged after it.
C4_EstimateKeepsPresent ==
    [][ last'.op = "score_tasks" =>
            \A id \in Ids(tasks) :
                LET before == tasks[id].fm
                    after  == tasks'[id].fm
                IN  /\ (Present(before.impact) /\ ~Present(before.effort))
                           => after.impact = before.impact
                    /\ (Present(before.effort) /\ ~Present(before.impact))
                           => after.effort = before.effort ]_vars

\* C5: whatever makes the external estimator unavailable, a scoring pass is
\* not aborted, and when it writes it leaves every record of the store with
\* impact, effort and score.
C5_EstimatorFailureFallsBack ==
    last.op = "score_tasks" =>
        /\ last.status = "ok"
        /\ ~last.dry_run =>
               \A file \in AllFiles(tasks) :
                   Present(file.fm.impact) /\ Present(file.fm.effort)
                       /\ Present(file.fm.score)

\* C6: a dry run of an entry point creates or modifies no record file and
\* creates no store directory.
C6_DryRunChangesNothing ==
    [][ last'.dry_run =>
            /\ tasks' = tasks /\ flagged' = flagged /\ backlog' = backlog
            /\ dirs' = dirs ]_vars

\* C11: for every raw action item the confidence of parse_action_item is in
\* [0, 1]; it is 0.5, plus 0.2 if an assignee was found, plus 0.15 if a due
\* date was found, plus 0.15 if the title is longer than 10 characters, and
\* exactly 1.0 when the three hold.
C11_ConfidenceFormula ==
    fnRet.f = "parse_action_item" =>
        LET r        == fnRet.v
            assignee == r.assignee # "unassigned"
            due      == r.due_date # Absent
            long     == TextChars(r.title) > 10
        IN  /\ r.confidence \in 0..100
            /\ r.confidence = 50 + (IF assignee THEN 20 ELSE 0)
                                 + (IF due THEN 15 ELSE 0)
                                 + (IF long THEN 15 ELSE 0)
            /\ (assignee /\ due /\ long) => r.confidence = 100

\* An item with an assignee, a due date and a title of more than 10
\* characters has been parsed with confidence 1.0.
C11_Witness ==
    /\ fnRet.f = "parse_action_item"
    /\ fnRet.v.assignee = "@alice"
    /\ fnRet.v.due_date = DateV(0)
    /\ fnRet.v.title = Words(<<"fix", "login", "bug">>)
    /\ fnRet.v.confidence = 100

\* C12: in every reachable state of the record store a record with status
\* done has completed_date set, and completed_date is not earlier than
\* created_date.
C12_DoneHasCompletedDate ==
    \A file \in AllFiles(tasks) :
        file.fm.status = TextV("done") =>
            /\ file.fm.completed_date.t = "date"
            /\ file.fm.created_date.t = "date"
            /\ file.fm.completed_date.v >= file.fm.created_date.v

\* C13: for every field mapping whose values are absent, integers,
\* one-decimal floats, texts or lists of text, parse(render(fields)) equals
\* fields, for the codec of score_tasks.py and for the codec of the MCP
\* server, with and without the YAML library.
C13_CodecRoundTrip ==
    fnRet.f = "round_trip" => fnRet.v = fnArgs.fields

\* A header block is malformed when it holds a line that is not of the
\* form "key: value".
Malformed(header) == \E i \in 1..Len(header) : header[i].k \in {"junk", "body"}

\* C14: parse_frontmatter never fails: for a text that does not begin with
\* the header delimiter or whose closing delimiter is missing it returns the
\* empty field mapping and the entire text as body, and for a text whose
\* header block is malformed it returns the empty field mapping.
C14_ParseNeverFails ==
    fnRet.f = "parse_frontmatter" =>
        LET text    == fnArgs.text
            begins  == Len(text) > 0 /\ text[1] = Delim
            closing == {i \in 2..Len(text) : text[i] = Delim}
            end     == CHOOSE i \in closing : \A m \in closing : i <= m
        IN  /\ fnRet.v.mapping
            /\ (~begins \/ closing = {}) =>
                   (fnRet.v.fm = << >> /\ fnRet.v.body = text)
            /\ (begins /\ closing # {} /\ Malformed(SubSeq(text, 2, end - 1))) =>
                   fnRet.v.fm = << >>

\* The checkbox lines of a note that lie after a level-2 heading whose text
\* is "Action Items" with no level-2 heading in between, in document order.
RECURSIVE SectionItems(_, _)
SectionItems(lines, n) ==
    IF n = 0 THEN << >>
    ELSE LET rest == SectionItems(lines, n - 1)
             inside == \E j \in 1..(n - 1) :
                          /\ lines[j].k = "h2_action_items"
                          /\ \A m \in (j + 1)..(n - 1) : ~MatchesH2(lines[m])
         IN  IF MatchesCheckbox(lines[n]) /\ inside
             THEN Append(rest, lines[n].raw) ELSE rest

\* C15: extract_action_items returns, in document order, exactly the checkbox
\* lines after a level-2 heading whose text is "Action Items" and before the
\* next level-2 heading of any kind; every other line contributes nothing.
C15_SectionWindow ==
    fnRet.f = "extract_action_items" =>
        fnRet.v = SectionItems(fnArgs.text, Len(fnArgs.text))

\* C16: the title parse_action_item produces has the bold owner marker, the
\* due clause and a trailing blocking/depends-on/blocked clause removed,
\* whether or not a dash follows the owner marker; the item
\* "**@alice** fix login bug -- due <date>" gives title "fix login bug",
\* assignee @alice, that due date and the labels {bug}.
C16_TitleStripped ==
    fnRet.f = "parse_action_item" =>
        LET r == fnRet.v
        IN  /\ \A i \in 1..Len(r.title) : ~IsOwner(r.title[i])
            /\ \A i \in 1..Len(r.title) : ~IsWord(r.title, i, "due")
            /\ fnArgs.raw = ItemNoDash(0) =>
                   /\ r.title = Words(<<"fix", "login", "bug">>)
                   /\ r.assignee = "@alice"
                   /\ r.due_date = DateV(0)
                   /\ r.labels = {"bug"}

\* C17: a candidate with no assignee and no due date has confidence at most
\* 0.65 and is routed to review, whatever urgency keywords its text contains;
\* "Migrate auth service to new provider -- critical, blocking release" has
\* confidence exactly 0.65 and is flagged.
C17_NoOwnerNoDueFlagged ==
    fnRet.f = "route" =>
        LET fields == fnRet.v.fields
        IN  /\ (fields.assignee = "unassigned" /\ fields.due_date = Absent) =>
                   /\ fields.confidence <= 65
                   /\ fnRet.v.dest = "flagged"
            /\ fnArgs.raw = ItemNoOwner =>
                   /\ fields.confidence = 65
                   /\ fnRet.v.dest = "flagged"

C17_Witness ==
    /\ fnRet.f = "route"
    /\ fnArgs.raw = ItemNoOwner
    /\ fnRet.v.fields.assignee = "unassigned"
    /\ fnRet.v.fields.due_date = Absent
    /\ fnRet.v.fields.urgency = 10
    /\ fnRet.v.fields.confidence = 65
    /\ fnRet.v.dest = "flagged"

\* C18: update_task and complete_task on an id that is not in the store
\* report an error and leave the stores as they were, no record created or
\* changed; an operation on a record that exists, made right after such an
\* error, succeeds.
C18_UnknownIdRejected ==
    [][\A task_id \in 1..MaxId :
          LET called == \/ \E params \in UpdateParams : UpdateTask(task_id, params)
                        \/ CompleteTask(task_id)
          IN  /\ (task_id \notin Ids(tasks) /\ called) =>
                     /\ last'.status = "error"
                     /\ tasks' = tasks
                     /\ flagged' = flagged
                     /\ dirs' = dirs
              /\ (last.status = "error" /\ task_id \in Ids(tasks) /\ called) =>
                     /\ last'.status = "ok"
                     /\ Ids(tasks') = Ids(tasks)
                     /\ CompleteTask(task_id) =>
                            tasks'[task_id].fm.status = TextV("done")]_vars

\* An update or completion of a missing id was refused while the store held
\* another record.
C18_Witness ==
    /\ last.op \in {"update_task", "complete_task"}
    /\ last.status = "error"
    /\ Ids(tasks) = {1}

\* C19: every mutation of a record (scoring pass, update_task,
\* complete_task) writes the body back exactly as it was read: the body of a
\* record after a step is, character for character, its body before it.
C19_BodyPassedThrough ==
    [][\A id \in Ids(tasks) \cap Ids(tasks') : tasks'[id].body = tasks[id].body]_vars

\* C20: the scoring pass uses the urgency-keyword table of extraction: for a
\* record with no stored urgency and no due date, the recomputed urgency is
\* the urgency parse_action_item computes for a raw item with the same words
\* as the record's title and body.
C20_SameKeywordTable ==
    (/\ fnRet.f = "compute_urgency"
     /\ fnArgs.fm.urgency = Absent
     /\ fnArgs.fm.due_date = Absent) =>
        fnRet.v = parse_action_item(fnArgs.fm.title \o fnArgs.body).urgency

\* C21: the deadline boost of compute_urgency depends on days_left = due date
\* - today only: +4 when days_left <= 0, +3 when 1..2, +2 when 3..7, +1 when
\* 8..14, and 0 when days_left > 14 or the due date is absent or is not a
\* date (no error is raised); the result is capped at 10.
C21_ProximityTiers ==
    fnRet.f = "compute_urgency" =>
        LET due   == fnArgs.fm.due_date
            base  == UrgencyBaseline(fnArgs.fm, fnArgs.body)
            days  == due.v - fnArgs.now
            boost == IF due.t # "date" THEN 0
                     ELSE IF days <= 0 THEN 4
                     ELSE IF days \in 1..2 THEN 3
                     ELSE IF days \in 3..7 THEN 2
                     ELSE IF days \in 8..14 THEN 1
                     ELSE 0
        IN  fnRet.v = Min(10, base + boost)

\* A record with stored urgency 5 due in exactly 14 days was re-scored to 6.
C21_Witness ==
    /\ fnRet.f = "compute_urgency"
    /\ fnArgs.fm.urgency = IntV(5)
    /\ fnArgs.fm.due_date.t = "date"
    /\ fnArgs.fm.due_date.v - fnArgs.now = 14
    /\ fnRet.v = 6

\* The number of phrases of a keyword list that occur in a title.
Matches(kws, title) == Cardinality({k \in 1..Len(kws) : KwIn(kws[k], title)})

\* C22: the heuristic effort of a title is 4 + 2 * (hard keywords present)
\* - 2 * (easy keywords present), clamped to 1..10, for every combination of
\* hard and easy keywords.
C22_EffortFormula ==
    fnRet.f = "heuristic_impact_effort" =>
        LET title == fnArgs.fm.title
            sum   == 4 + 2 * Matches(hard_keywords, title)
                       - 2 * Matches(easy_keywords, title)
        IN  fnRet.v[2] = Max(1, Min(10, sum))

\* The sum of the boosts of the keywords of a table, from entry k on, that
\* occur in a text.
RECURSIVE BoostSum(_, _, _)
BoostSum(table, k, text) ==
    IF k > Len(table) THEN 0
    ELSE (IF KwIn(table[k].kw, text) THEN table[k].boost ELSE 0)
         + BoostSum(table, k + 1, text)

\* C23: at extraction the urgency is min(10, 5 + the sum of the boosts of
\* every urgency keyword that occurs in the raw text, whatever its case):
\* the boosts of all the keywords found add up, capped at 10.
C23_BoostsAccumulate ==
    fnRet.f = "parse_action_item" =>
        fnRet.v.urgency = Min(10, 5 + BoostSum(extract_URGENCY_KEYWORDS, 1, fnArgs.raw))

\* An item with "asap" and "soon" and no other keyword got urgency 8.
C23_Witness ==
    /\ fnRet.f = "parse_action_item"
    /\ KwIn(<<"asap">>, fnArgs.raw)
    /\ KwIn(<<"soon">>, fnArgs.raw)
    /\ BoostSum(extract_URGENCY_KEYWORDS, 1, fnArgs.raw) = 3
    /\ fnRet.v.urgency = 8

\* C24: the priority parse_action_item assigns follows from the urgency it
\* computed and from nothing else: high if urgency >= 8, medium if
\* urgency >= 5, otherwise low.
C24_PriorityFromUrgency ==
    fnRet.f = "parse_action_item" =>
        LET r == fnRet.v
        IN  /\ r.urgency >= 8 => r.priority = "high"
            /\ (r.urgency >= 5 /\ r.urgency < 8) => r.priority = "medium"
            /\ r.urgency < 5 => r.priority = "low"

\* An item whose only keyword is "critical" has urgency 8 and priority high.
C24_Witness ==
    /\ fnRet.f = "parse_action_item"
    /\ fnArgs.raw = Words(<<"critical">>)
    /\ fnRet.v.urgency = 8
    /\ fnRet.v.priority = "high"

\* C25: repeated write cycles reach a fixed point: for any header, the text
\* after the second parse-then-render cycle is the text after the first, so
\* no field gathers quoting and a list written as a quoted bracketed string
\* is written back as a list.
C25_WriteCycleFixedPoint ==
    fnRet.f = "write_cycles" => fnRet.v.second = fnRet.v.first

\* C26: after any sequence of extraction runs and create_task calls no task
\* id has been given to two records: the ids of the live store and of the
\* flagged store are disjoint.
C26_IdsUnique == Ids(tasks) \cap Ids(flagged) = {}

\* C27: a record the Backlog importer wrote from an action item with an ISO
\* due date within 14 days gets the deadline-proximity boost when scorer.py
\* scores it: the urgency scorer.py writes is the baseline plus the boost for
\* the stored due date, capped at 10.
C27_ImportedDueDateBoosted ==
    [][(/\ ops' = ops + 1
        /\ last'.op = "scorer"
        /\ ~last'.dry_run
        /\ last'.status = "ok") =>
          \A id \in Ids(backlog') :
              LET before == backlog[id].fm
                  after  == backlog'[id].fm
              IN  (after.due.t = "date" /\ after.due.v - today <= 14) =>
                      after.urgency =
                          IntV(Min(10, UrgencyBaseline(before, << >>)
                                       + ProximityBoost(after.due.v - today)))]_vars

====
